---- MODULE Spec2Model ----
(***************************************************************************)
(* Ranked-choice (instant-runoff) counting core of audit-lab:              *)
(* code/rcv.py (ballot normalisation, round engine, winner driver).        *)
(*                                                                         *)
(* A ballot is a sequence of strings.  A Python dict is modelled as the    *)
(* sequence of its items in insertion order, each item a record            *)
(* [k |-> key, v |-> value] with pairwise distinct keys: a tally maps      *)
(* ballots to counts, a first-choice count maps choices to counts.         *)
(***************************************************************************)
EXTENDS Integers, Sequences, FiniteSets, TLC

\* ------------------------------------------------------------------ bounds
MaxLen == 2         \* longest ballot given to rcv_winner
MaxEntries == 2     \* most distinct ballots in a tally given to rcv_winner
MaxCount == 2       \* largest count of one ballot
MaxTB == 2          \* longest tie-break order
CleanMaxLen == 3    \* longest raw ballot given to clean
CleanMaxEntries == 2 \* most distinct raw ballots in a tally given to clean
IrvMaxLen == 2      \* most rank tokens on a vote given to outcomes.IRV
IrvMaxEntries == 2  \* most distinct votes in a tally given to outcomes.IRV

\* ------------------------------------------------------------- vocabulary
Candidates == {"a", "b", "c"}
Sentinels == {"undervote", "overvote"}
Tokens == Candidates \cup Sentinels
CleanTokens == {"a", "b"} \cup Sentinels

\* Python's None (no candidate is called this)
None == "~None~"

\* Python compares strings by code point; the names used here, ascending.
NameOrder == <<"a", "b", "c", "d", "e", "f", "overvote", "undervote">>
NameRank(name) == CHOOSE i \in 1..Len(NameOrder) : NameOrder[i] = name

\* ------------------------------------------------------------ dict helpers
\* key in dict
HasKey(dict, key) == \E i \in 1..Len(dict) : dict[i].k = key

\* Variant of Accumulate: the count is stored over the one already there.
Accumulate_Overwrite(dict, key, val) ==
    IF HasKey(dict, key)
    THEN [i \in 1..Len(dict) |->
            IF dict[i].k = key THEN [k |-> key, v |-> val] ELSE dict[i]]
    ELSE Append(dict, [k |-> key, v |-> val])

\* dict[key] = dict[key] + val if key in dict else val
\* (an existing key keeps its place, a new key goes last)
Accumulate(dict, key, val) ==
    IF HasKey(dict, key)
    THEN [i \in 1..Len(dict) |->
            IF dict[i].k = key THEN [k |-> key, v |-> dict[i].v + val] ELSE dict[i]]
    ELSE Append(dict, [k |-> key, v |-> val])

\* ------------------------------------------------------- ballot normaliser
\* The loop of delete_double_undervotes over one ballot: the value of
\* double_uv_at (0-based) after the scan.
DoubleUvAt(ballot) ==
    LET n == Len(ballot)
        \* at[j]: double_uv_at after the iterations i = 0 .. j-1
        at[j \in 0..(IF n > 0 THEN n - 1 ELSE 0)] ==
            IF j = 0 THEN n
            ELSE IF /\ ballot[j] = "undervote"
                    /\ ballot[j + 1] = "undervote"
                    /\ at[j - 1] = n
                 THEN j - 1
                 ELSE at[j - 1]
    IN at[IF n > 0 THEN n - 1 ELSE 0]

\* new_ballot = ballot[:double_uv_at]
TruncateDoubleUndervote(ballot) == SubSeq(ballot, 1, DoubleUvAt(ballot))

delete_double_undervotes(tally) ==
    LET new_tally[i \in 0..Len(tally)] ==
            IF i = 0 THEN <<>>
            ELSE Accumulate(new_tally[i - 1],
                            TruncateDoubleUndervote(tally[i].k), tally[i].v)
    IN new_tally[Len(tally)]

\* Variant of DeleteFromBallot: a ballot that holds the name is emptied.
DeleteFromBallot_Empties(ballot, name, delete_following) ==
    IF \E j \in 1..Len(ballot) : ballot[j] = name THEN <<>> ELSE ballot

\* Variant of DeleteFromBallot: only the first occurrence of name goes.
DeleteFromBallot_FirstOnly(ballot, name, delete_following) ==
    LET at == {j \in 1..Len(ballot) : ballot[j] = name}
        first == CHOOSE j \in at : \A i \in at : j <= i
    IN IF at = {} THEN ballot
       ELSE IF delete_following THEN SubSeq(ballot, 1, first - 1)
       ELSE SubSeq(ballot, 1, first - 1) \o SubSeq(ballot, first + 1, Len(ballot))

\* The inner loop of delete_name over one ballot.
DeleteFromBallot(ballot, name, delete_following) ==
    LET \* st[j]: (new_ballot, loop left by break) after the first j tokens
        st[j \in 0..Len(ballot)] ==
            IF j = 0 THEN [nb |-> <<>>, brk |-> FALSE]
            ELSE IF st[j - 1].brk THEN st[j - 1]
            ELSE IF ballot[j] # name
                 THEN [nb |-> Append(st[j - 1].nb, ballot[j]), brk |-> FALSE]
            ELSE IF delete_following
                 THEN [nb |-> st[j - 1].nb, brk |-> TRUE]
            ELSE st[j - 1]
    IN IF \E j \in 1..Len(ballot) : ballot[j] = name
       THEN st[Len(ballot)].nb
       ELSE ballot

\* Variant of delete_name: the tally passed in is returned.
delete_name_Keep(tally, name, delete_following) == tally

\* Variant of delete_name: what follows the name is always dropped too.
delete_name_Truncating(tally, name, delete_following) ==
    LET new_tally[i \in 0..Len(tally)] ==
            IF i = 0 THEN <<>>
            ELSE Accumulate(new_tally[i - 1],
                            DeleteFromBallot(tally[i].k, name, TRUE), tally[i].v)
    IN new_tally[Len(tally)]

delete_name(tally, name, delete_following) ==
    LET new_tally[i \in 0..Len(tally)] ==
            IF i = 0 THEN <<>>
            ELSE Accumulate(new_tally[i - 1],
                            DeleteFromBallot(tally[i].k, name, delete_following),
                            tally[i].v)
    IN new_tally[Len(tally)]

\* Variant of delete_undervotes: single undervotes go before the doubles are
\* looked for.
delete_undervotes_SinglesFirst(tally) ==
    delete_double_undervotes(delete_name(tally, "undervote", FALSE))

delete_undervotes(tally) ==
    delete_name(delete_double_undervotes(tally), "undervote", FALSE)

delete_overvotes(tally) == delete_name(tally, "overvote", TRUE)

clean(tally) == delete_undervotes(delete_overvotes(tally))

\* ------------------------------------------------------------ round engine
count_first_choices(tally) ==
    LET dd[i \in 0..Len(tally)] ==
            IF i = 0 THEN <<>>
            ELSE IF Len(tally[i].k) > 0
                 THEN Accumulate(dd[i - 1], tally[i].k[1], tally[i].v)
                 ELSE dd[i - 1]
    IN dd[Len(tally)]

\* 0-based position of name in tie_breaker, or its length if absent
tie_breaker_index(tb, name) ==
    IF \E i \in 1..Len(tb) : tb[i] = name
    THEN (CHOOSE i \in 1..Len(tb) :
            /\ tb[i] = name
            /\ \A j \in 1..(i - 1) : tb[j] # name) - 1
    ELSE Len(tb)

\* sum([d[choice] for choice in d])
SumCounts(dict) ==
    LET s[i \in 0..Len(dict)] == IF i = 0 THEN 0 ELSE s[i - 1] + dict[i].v
    IN s[Len(dict)]

\* Python's order on the triples (count, -index, name)
TripleLess(x, y) ==
    \/ x[1] < y[1]
    \/ x[1] = y[1] /\ x[2] < y[2]
    \/ x[1] = y[1] /\ x[2] = y[2] /\ NameRank(x[3]) < NameRank(y[3])

\* Variant of SortedE: the index is not negated, so of equal counts the
\* most-favoured choice sorts first.
SortedE_FavouredFirst(dict, tb) ==
    LET E == {<<dict[i].v, tie_breaker_index(tb, dict[i].k), dict[i].k>> :
                i \in 1..Len(dict)}
    IN [i \in 1..Len(dict) |->
          CHOOSE x \in E : Cardinality({y \in E : TripleLess(y, x)}) = i - 1]

\* Variant of SortedE: the triples are (-index, count, name), so the tie-break
\* order decides before the counts do.
SortedE_IndexFirst(dict, tb) ==
    LET E == {<<0 - tie_breaker_index(tb, dict[i].k), dict[i].v, dict[i].k>> :
                i \in 1..Len(dict)}
        s == [i \in 1..Len(dict) |->
                CHOOSE x \in E : Cardinality({y \in E : TripleLess(y, x)}) = i - 1]
    IN [i \in 1..Len(dict) |-> <<s[i][2], s[i][1], s[i][3]>>]

\* E = sorted([(d[k], -tie_breaker_index(tie_breaker, k), k) for k in d])
\* (the triples are pairwise distinct, their names being distinct keys)
SortedE(dict, tb) ==
    LET E == {<<dict[i].v, 0 - tie_breaker_index(tb, dict[i].k), dict[i].k>> :
                i \in 1..Len(dict)}
    IN [i \in 1..Len(dict) |->
          CHOOSE x \in E : Cardinality({y \in E : TripleLess(y, x)}) = i - 1]

\* Variant of MajorityChoice: more than half of the total is enough.
MajorityChoice_MoreThanHalf(dict) ==
    LET total_first_choices == SumCounts(dict)
        hit == {i \in 1..Len(dict) : 2 * dict[i].v > total_first_choices}
    IN IF hit = {} THEN None
       ELSE dict[CHOOSE i \in hit : \A j \in hit : i <= j].k

\* The majority loop: the first choice in d whose count is the total, or None.
MajorityChoice(dict) ==
    LET total_first_choices == SumCounts(dict)
        hit == {i \in 1..Len(dict) : dict[i].v = total_first_choices}
    IN IF hit = {} THEN None
       ELSE dict[CHOOSE i \in hit : \A j \in hit : i <= j].k

\* rcv_round(tally, tie_breaker) = (w, d, e, LL); ok is FALSE when the
\* assertion len(d) > 0 fails.
rcv_round(tally, tb) ==
    LET dict == count_first_choices(tally)
    IN IF Len(dict) = 0
       THEN [ok |-> FALSE, w |-> None, d |-> dict, e |-> None, LL |-> <<>>]
       ELSE IF Len(dict) = 1
       THEN [ok |-> TRUE, w |-> dict[1].k, d |-> dict, e |-> None, LL |-> <<>>]
       ELSE IF MajorityChoice(dict) # None
       THEN [ok |-> TRUE, w |-> MajorityChoice(dict), d |-> dict, e |-> None,
             LL |-> <<>>]
       ELSE LET elim == SortedE(dict, tb)[1][3]
            IN [ok |-> TRUE, w |-> None, d |-> dict, e |-> elim,
                LL |-> delete_name(tally, elim, FALSE)]

\* ------------------------------------------------------------------ inputs
Ballots(toks, maxlen) == UNION {[1..n -> toks] : n \in 0..maxlen}

\* every dict of at most maxn items over the given ballots, in every
\* insertion order, with counts 0..MaxCount
Tallies(ballots, maxn) ==
    LET Items == [k : ballots, v : 0..MaxCount]
    IN UNION {{t \in [1..n -> Items] :
                 \A i, j \in 1..n : i # j => t[i].k # t[j].k} : n \in 0..maxn}

TieBreakers ==
    UNION {{tb \in [1..n -> Candidates] :
              \A i, j \in 1..n : i # j => tb[i] # tb[j]} : n \in 0..MaxTB}

Item(ballot, count) == [k |-> ballot, v |-> count]

\* the examples of rcv.py's docstrings
DocRound1 == <<Item(<<"a", "b">>, 1), Item(<<"c", "d">>, 1),
               Item(<<"c", "e">>, 1), Item(<<"f", "a">>, 1)>>
DocRound2 == Append(DocRound1, Item(<<"f", "b">>, 1))
DocRound3 == <<Item(<<"a", "b">>, 1), Item(<<"a", "c">>, 1)>>
DocTieBreaker == <<"a", "b", "c", "d", "e", "f">>
DocUndervotes == <<Item(<<"undervote", "undervote", "a">>, 1),
                   Item(<<"b", "undervote", "undervote", "c">>, 1),
                   Item(<<"d", "undervote">>, 1)>>
DocOvervotes == <<Item(<<"a", "overvote", "b">>, 4), Item(<<"c", "overvote">>, 2),
                  Item(<<"d">>, 1), Item(<<"overvote">>, 1)>>

\* tallies for rcv_winner: short ballots over every token, and one more
\* entry of ballots that name at most one candidate; and the docstrings' tallies
WinnerInputs ==
    (Tallies(Ballots(Tokens, MaxLen), MaxEntries) \X TieBreakers)
    \cup (Tallies(Ballots(Candidates, 1), MaxEntries + 1) \X TieBreakers)
    \cup ({DocRound1, DocRound2, DocRound3} \X {DocTieBreaker})

CleanInputs ==
    Tallies(Ballots(CleanTokens, CleanMaxLen), CleanMaxEntries)
    \cup {DocUndervotes, DocOvervotes}

\* ------------------------------------------------------------------- state
VARIABLES
    pc,             \* "loop", "done", "failed" (rcv_winner); "raw", "cleaned" (clean)
    input,          \* the tally the caller passed
    tally,          \* the current tally
    tie_breaker,    \* the tie-break order passed to rcv_winner
    round_number,   \* rcv_winner's round counter
    w,              \* the winner returned, or None
    d,              \* first-choice counts of the last round
    e,              \* choice eliminated in the last round, or None
    elims,          \* choices eliminated so far, in order
    tie,            \* some elimination round had two or more weakest choices
    error,          \* the exception that ended the call, or None
    outcome,        \* what outcomes.IRV returned, or None
    ballots         \* the ballot list convert_tally_to_ballots returned

\* what only outcomes.IRV and the tally/ballot-list conversions write
callerVars == <<outcome, ballots>>

vars == <<pc, input, tally, tie_breaker, round_number, w, d, e, elims, tie, error,
          outcome, ballots>>

\* the choices of d holding the least first-choice count
Weakest(dict) ==
    {dict[i].k : i \in {i \in 1..Len(dict) : \A j \in 1..Len(dict) : dict[i].v <= dict[j].v}}

\* rcv_winner(input, tie_breaker) has just been called
Init ==
    /\ \E in \in WinnerInputs : input = in[1] /\ tie_breaker = in[2]
    /\ tally = input
    /\ pc = "loop"
    /\ round_number = 0
    /\ w = None /\ d = <<>> /\ e = None /\ elims = <<>> /\ tie = FALSE
    /\ error = None
    /\ outcome = None /\ ballots = <<>>

\* Variant of RoundFails: the round returns no winner instead of failing, and
\* rcv_winner returns it.
RoundFails_Silent ==
    /\ pc = "loop"
    /\ ~rcv_round(tally, tie_breaker).ok
    /\ round_number' = round_number + 1
    /\ pc' = "done"
    /\ UNCHANGED <<input, tally, tie_breaker, w, d, e, elims, tie, error>>
    /\ UNCHANGED callerVars

\* One pass of the while loop in which rcv_round's assertion fails.  Run with
\* assertions stripped (python -O) the same call fails at E[0] instead.
RoundFails ==
    /\ pc = "loop"
    /\ ~rcv_round(tally, tie_breaker).ok
    /\ round_number' = round_number + 1
    /\ pc' = "failed"
    /\ error' \in {"AssertionError", "IndexError"}
    /\ UNCHANGED <<input, tally, tie_breaker, w, d, e, elims, tie>>
    /\ UNCHANGED callerVars

\* One pass of the while loop in which rcv_round names a winner.
RoundWins ==
    /\ pc = "loop"
    /\ LET r == rcv_round(tally, tie_breaker)
       IN /\ r.ok /\ r.w # None
          /\ w' = r.w /\ d' = r.d /\ e' = r.e
    /\ round_number' = round_number + 1
    /\ pc' = "done"
    /\ UNCHANGED <<input, tally, tie_breaker, elims, tie, error>>
    /\ UNCHANGED callerVars

\* One pass of the while loop in which rcv_round eliminates a choice.
RoundEliminates ==
    /\ pc = "loop"
    /\ LET r == rcv_round(tally, tie_breaker)
       IN /\ r.ok /\ r.w = None
          /\ d' = r.d /\ e' = r.e
          /\ tally' = delete_name(r.LL, r.e, FALSE)
          /\ elims' = Append(elims, r.e)
          /\ tie' = (tie \/ Cardinality(Weakest(r.d)) >= 2)
    /\ round_number' = round_number + 1
    /\ UNCHANGED <<pc, input, tie_breaker, w, error>>
    /\ UNCHANGED callerVars

Next == RoundFails \/ RoundWins \/ RoundEliminates

Spec == Init /\ [][Next]_vars

\* clean(input) is about to be called
InitClean ==
    /\ input \in CleanInputs
    /\ tally = input
    /\ pc = "raw"
    /\ tie_breaker = <<>>
    /\ round_number = 0
    /\ w = None /\ d = <<>> /\ e = None /\ elims = <<>> /\ tie = FALSE
    /\ error = None
    /\ outcome = None /\ ballots = <<>>

Clean ==
    /\ pc = "raw"
    /\ tally' = clean(tally)
    /\ pc' = "cleaned"
    /\ UNCHANGED <<input, tie_breaker, round_number, w, d, e, elims, tie, error>>
    /\ UNCHANGED callerVars

NextClean == Clean

SpecClean == InitClean /\ [][NextClean]_vars

\* ------------------------------------------- tally / ballot-list conversion
\* [ballot] * n
Repeat(ballot, n) == [i \in 1..n |-> ballot]

\* Variant of convert_tally_to_ballots: every ballot is listed once.
convert_tally_to_ballots_Once(t) == [i \in 1..Len(t) |-> t[i].k]

convert_tally_to_ballots(t) ==
    LET bs[i \in 0..Len(t)] ==
            IF i = 0 THEN <<>>
            ELSE bs[i - 1] \o Repeat(t[i].k, t[i].v)
    IN bs[Len(t)]

convert_ballots_to_tally(bs) ==
    LET tl[i \in 0..Len(bs)] ==
            IF i = 0 THEN <<>>
            ELSE IF HasKey(tl[i - 1], bs[i])
                 THEN [j \in 1..Len(tl[i - 1]) |->
                         IF tl[i - 1][j].k = bs[i]
                         THEN [k |-> bs[i], v |-> tl[i - 1][j].v + 1]
                         ELSE tl[i - 1][j]]
                 ELSE Append(tl[i - 1], [k |-> bs[i], v |-> 1])
    IN tl[Len(bs)]

ConvertInputs == Tallies(Ballots(Tokens, MaxLen), MaxEntries)

\* convert_tally_to_ballots(input) is about to be called
InitConvert ==
    /\ input \in ConvertInputs
    /\ tally = input
    /\ pc = "tally"
    /\ tie_breaker = <<>>
    /\ round_number = 0
    /\ w = None /\ d = <<>> /\ e = None /\ elims = <<>> /\ tie = FALSE
    /\ error = None
    /\ outcome = None /\ ballots = <<>>

Expand ==
    /\ pc = "tally"
    /\ ballots' = convert_tally_to_ballots(tally)
    /\ pc' = "ballots"
    /\ UNCHANGED <<input, tally, tie_breaker, round_number, w, d, e, elims, tie,
                   error, outcome>>

Collapse ==
    /\ pc = "ballots"
    /\ tally' = convert_ballots_to_tally(ballots)
    /\ pc' = "collapsed"
    /\ UNCHANGED <<input, tie_breaker, round_number, w, d, e, elims, tie, error,
                   outcome, ballots>>

NextConvert == Expand \/ Collapse

SpecConvert == InitConvert /\ [][NextConvert]_vars

\* ------------------------------------------------------ rank-token adapter
\* outcomes.IRV: a vote is a tuple of rank tokens.  A rank token is a Python
\* string, modelled as the sequence of its characters so that sorting and
\* split("-") act on it as they do in Python.

\* the characters used here, ascending by code point
CharOrder == <<"-", "0", "1", "2", "a", "b", "c", "x">>
CharRank(ch) == CHOOSE i \in 1..Len(CharOrder) : CharOrder[i] = ch

\* Python's s < t on strings
StrLess(s, t) ==
    \E i \in 1..(Len(t)) :
        /\ \A j \in 1..(i - 1) : j <= Len(s) /\ s[j] = t[j]
        /\ \/ i > Len(s)
           \/ i <= Len(s) /\ CharRank(s[i]) < CharRank(t[i])

\* the decimal value of a rank, 0 if it is not a number
RankValue(chars) ==
    LET val[i \in 0..Len(chars)] ==
            IF i = 0 THEN 0
            ELSE IF chars[i] \in {"0", "1", "2"}
                 THEN 10 * val[i - 1] + (CharRank(chars[i]) - 2)
                 ELSE 0
    IN val[Len(chars)]

\* token.split("-")
SplitHyphen(token) ==
    LET parts[i \in 0..Len(token)] ==
            IF i = 0 THEN << <<>> >>
            ELSE IF token[i] = "-"
                 THEN Append(parts[i - 1], <<>>)
                 ELSE [parts[i - 1] EXCEPT ![Len(parts[i - 1])] = Append(@, token[i])]
    IN parts[Len(token)]

\* Variant of SortedVote: the tokens are ordered by the number before the
\* hyphen.
SortedVote_Numeric(vote) ==
    LET Before(i, j) ==
            \/ RankValue(SplitHyphen(vote[i])[1]) < RankValue(SplitHyphen(vote[j])[1])
            \/ /\ RankValue(SplitHyphen(vote[i])[1]) = RankValue(SplitHyphen(vote[j])[1])
               /\ i < j
        at(p) == CHOOSE i \in 1..Len(vote) :
                    Cardinality({j \in 1..Len(vote) : Before(j, i)}) = p - 1
    IN [p \in 1..Len(vote) |-> vote[at(p)]]

\* sorted(vote): ascending as strings, equal tokens in their given order
SortedVote(vote) ==
    LET Before(i, j) ==
            \/ StrLess(vote[i], vote[j])
            \/ vote[i] = vote[j] /\ i < j
        at(p) == CHOOSE i \in 1..Len(vote) :
                    Cardinality({j \in 1..Len(vote) : Before(j, i)}) = p - 1
    IN [p \in 1..Len(vote) |-> vote[at(p)]]

\* next_rank, candidate = rank_candidate.split("-") raises ValueError unless
\* the token has exactly one hyphen.
Unpacks(token) == Len(SplitHyphen(token)) = 2

\* The candidate as a choice name.  The candidates used here are one
\* character long; the empty candidate is the empty name.
NameOf(chars) == IF Len(chars) = 1 THEN chars[1] ELSE ""

\* the inner loop of IRV over one vote
OrderedCandidates(vote) ==
    LET ordered_vote == SortedVote(vote)
    IN [i \in 1..Len(vote) |-> NameOf(SplitHyphen(ordered_vote[i])[2])]

\* ordered_tally[ordered_candidates] = tally[vote]
Store(dict, key, val) ==
    IF HasKey(dict, key)
    THEN [i \in 1..Len(dict) |->
            IF dict[i].k = key THEN [k |-> key, v |-> val] ELSE dict[i]]
    ELSE Append(dict, [k |-> key, v |-> val])

\* the loop of IRV over the votes of the tally
OrderedTally(t) ==
    LET ot[i \in 0..Len(t)] ==
            IF i = 0 THEN <<>>
            ELSE Store(ot[i - 1], OrderedCandidates(t[i].k), t[i].v)
    IN ot[Len(t)]

\* rank tokens: "1-a", "2-a", "10-a", ... and tokens that are not of the
\* form <rank>-<candidate>: "a", "x-a", "-a"
RankTokens ==
    {rk \o <<"-", c>> : rk \in {<<"1">>, <<"2">>, <<"1", "0">>}, c \in {"a", "b"}}
    \cup {<<"a">>, <<"x", "-", "a">>, <<"-", "a">>}

IRVInputs == Tallies(Ballots(RankTokens, IrvMaxLen), IrvMaxEntries)

\* IRV(e, cid, input) has just been called
InitIRV ==
    /\ input \in IRVInputs
    /\ tally = <<>>
    /\ pc = "irv"
    /\ tie_breaker = None
    /\ round_number = 0
    /\ w = None /\ d = <<>> /\ e = None /\ elims = <<>> /\ tie = FALSE
    /\ error = None
    /\ outcome = None /\ ballots = <<>>

\* the votes are rewritten and rcv_winner is called with an empty tie_breaker
Adapt ==
    /\ pc = "irv"
    /\ \A i \in 1..Len(input) : \A j \in 1..Len(input[i].k) : Unpacks(input[i].k[j])
    /\ tally' = OrderedTally(input)
    /\ tie_breaker' = <<>>
    /\ pc' = "loop"
    /\ UNCHANGED <<input, round_number, w, d, e, elims, tie, error, outcome, ballots>>

\* a token of some vote does not unpack into two parts
AdaptFails ==
    /\ pc = "irv"
    /\ \E i \in 1..Len(input) : \E j \in 1..Len(input[i].k) : ~Unpacks(input[i].k[j])
    /\ pc' = "failed"
    /\ error' = "ValueError"
    /\ UNCHANGED <<input, tally, tie_breaker, round_number, w, d, e, elims, tie,
                   outcome, ballots>>

\* return rcv.rcv_winner(ordered_tally, tie_breaker, False),
IRVReturns ==
    /\ pc = "done"
    /\ outcome' = <<w>>
    /\ pc' = "returned"
    /\ UNCHANGED <<input, tally, tie_breaker, round_number, w, d, e, elims, tie,
                   error, ballots>>

NextIRV ==
    Adapt \/ AdaptFails \/ RoundFails \/ RoundWins \/ RoundEliminates \/ IRVReturns

SpecIRV == InitIRV /\ [][NextIRV]_vars

\* ------------------------------------------------- what the claims speak of
Range(seq) == {seq[i] : i \in 1..Len(seq)}

\* the distinct choices appearing anywhere in a tally
Choices(t) == UNION {Range(t[i].k) : i \in 1..Len(t)}

\* the ballots of a tally
BallotsOf(t) == {t[i].k : i \in 1..Len(t)}

\* a tally as a mapping: its set of (ballot, count) pairs
AsMap(t) == {<<t[i].k, t[i].v>> : i \in 1..Len(t)}

\* the choices that are the first token of some ballot
FirstChoices(t) == {t[i].k[1] : i \in {j \in 1..Len(t) : Len(t[j].k) > 0}}

\* total count of the entries of t whose ballot satisfies the membership test
WeightIn(t, S) ==
    LET s[i \in 0..Len(t)] ==
            IF i = 0 THEN 0
            ELSE s[i - 1] + (IF t[i].k \in S THEN t[i].v ELSE 0)
    IN s[Len(t)]

\* first-choice weight of choice c, and of all choices together
FirstWeight(t, c) == WeightIn(t, {b \in BallotsOf(t) : Len(b) > 0 /\ b[1] = c})
TotalFirstWeight(t) == WeightIn(t, {b \in BallotsOf(t) : Len(b) > 0})

\* position of a choice in a tie-break order, the order's length if absent
IndexIn(tb, c) ==
    IF c \in Range(tb)
    THEN (CHOOSE i \in 1..Len(tb) : tb[i] = c /\ \A j \in 1..Len(tb) : tb[j] = c => i <= j) - 1
    ELSE Len(tb)

\* a pass of the loop has just run, and it was an elimination
Eliminated == pc = "loop" /\ pc' = "loop" /\ round_number' = round_number + 1

\* C1: rcv_round names a winner exactly when one choice has first-choice
\* weight or some choice's first-choice weight is the sum of all of them, and
\* eliminates otherwise; a tally whose non-empty ballots share one first choice c
\* makes rcv_winner return c in round 1.
C1_WinnerIffAllWeight ==
    [][(pc = "loop" /\ FirstChoices(tally) # {} /\ round_number' = round_number + 1) =>
        LET fc == FirstChoices(tally)
            all == \/ Cardinality(fc) = 1
                   \/ \E c \in fc : FirstWeight(tally, c) = TotalFirstWeight(tally)
        IN /\ all => (pc' = "done" /\ w' \in fc /\ e' = None)
           /\ ~all => (pc' = "loop" /\ w' = None /\ e' \in fc)
           /\ (round_number = 0 /\ Cardinality(fc) = 1) =>
                 (pc' = "done" /\ {w'} = fc /\ round_number' = 1)]_vars

\* a choice held more than half, but not all, of the first-choice weight, and
\* the round eliminated
C1_Witness ==
    /\ pc = "loop" /\ round_number = 1 /\ e # None
    /\ \E i \in 1..Len(d) : 2 * d[i].v > SumCounts(d)

\* C2: the choice an elimination round removes has the least first-choice
\* weight, and no choice of that weight has a larger tie-break index.
C2_EliminatesLeastFavoured ==
    [][Eliminated =>
        /\ e' \in FirstChoices(tally)
        /\ \A k \in FirstChoices(tally) :
              /\ FirstWeight(tally, e') <= FirstWeight(tally, k)
              /\ FirstWeight(tally, e') = FirstWeight(tally, k) =>
                    IndexIn(tie_breaker, e') >= IndexIn(tie_breaker, k)]_vars

\* two weakest choices, both listed in the tie-break order, and the one listed
\* later was eliminated
C2_Witness ==
    /\ e # None /\ round_number = 1
    /\ \E k \in Weakest(d) \ {e} :
          /\ k \in Range(tie_breaker) /\ e \in Range(tie_breaker)
          /\ IndexIn(tie_breaker, k) < IndexIn(tie_breaker, e)

\* C3: rcv_winner runs at most N+1 rounds, N the number of distinct choices
\* of its tally, and every step it takes is a pass of its loop that advances
\* the round counter: it ends, and never cycles.
C3_RoundsBounded ==
    /\ [](round_number <= Cardinality(Choices(input)) + 1)
    /\ [][pc = "loop" /\ round_number' = round_number + 1]_vars

\* the call ended after as many rounds as the tally has choices, three or more
C3_Witness ==
    /\ pc = "done"
    /\ round_number = Cardinality(Choices(input))
    /\ round_number >= 3

\* C4: an elimination round removes the eliminated choice from every ballot
\* and nothing else: the choices left are the old ones minus that choice, and
\* a ballot without it is still a ballot of the tally.
C4_EliminationRemovesOneChoice ==
    [][Eliminated =>
        /\ Choices(tally') = Choices(tally) \ {e'}
        /\ e' \in Choices(tally)
        /\ \A b \in BallotsOf(tally) : e' \notin Range(b) => b \in BallotsOf(tally')
        /\ \A b \in BallotsOf(tally') :
              \E b0 \in BallotsOf(tally) :
                 b = SelectSeq(b0, LAMBDA x : x # e')]_vars

\* the eliminated choice stood behind another choice on a ballot of the input
C4_Witness ==
    /\ e # None /\ round_number = 1
    /\ \E b \in BallotsOf(input) : Len(b) = 2 /\ b[1] # e /\ b[2] = e
    /\ \E b \in BallotsOf(input) : e \notin Range(b) /\ Len(b) > 0

\* C5: a round on a tally without first choices (no ballot, or empty ballots
\* only) fails and names no winner.
C5_NoFirstChoiceFails ==
    [][(pc = "loop" /\ \A b \in BallotsOf(tally) : b = <<>>) =>
        (pc' = "failed" /\ w' = None /\ error' # None)]_vars

\* the call failed on a tally that has ballots, all of them empty
C5_Witness == pc = "failed" /\ input # <<>> /\ w = None

\* --- the normaliser, as the specification words it
\* the ballot before its first overvote
BeforeOvervote(b) ==
    LET at == {i \in 1..Len(b) : b[i] = "overvote"}
    IN IF at = {} THEN b
       ELSE SubSeq(b, 1, (CHOOSE i \in at : \A j \in at : i <= j) - 1)

\* the ballot before its first pair of adjacent undervotes
BeforeDoubleUndervote(b) ==
    LET at == {i \in 1..(Len(b) - 1) : b[i] = "undervote" /\ b[i + 1] = "undervote"}
    IN IF at = {} THEN b
       ELSE SubSeq(b, 1, (CHOOSE i \in at : \A j \in at : i <= j) - 1)

WithoutUndervotes(b) == SelectSeq(b, LAMBDA x : x # "undervote")

Normalised(b) == WithoutUndervotes(BeforeDoubleUndervote(BeforeOvervote(b)))

\* C6: clean turns every ballot into its overvote-truncated, then
\* double-undervote-truncated, then undervote-free form; no sentinel is left;
\* the specification's scenario comes out as stated.
C6_CleanNormalises ==
    pc = "cleaned" =>
        /\ BallotsOf(tally) = {Normalised(b) : b \in BallotsOf(input)}
        /\ Choices(tally) \cap Sentinels = {}
        /\ input = DocUndervotes =>
              tally = <<Item(<<>>, 1), Item(<<"b">>, 1), Item(<<"d">>, 1)>>

\* a ballot with a candidate behind a double undervote has been cleaned
C6_Witness ==
    /\ pc = "cleaned"
    /\ \E b \in BallotsOf(input) :
          /\ Len(b) = 3 /\ b[1] = "undervote" /\ b[2] = "undervote"
          /\ b[3] \in Candidates

\* C7: cleaning a cleaned tally changes nothing.
C7_CleanIdempotent == pc = "cleaned" => AsMap(clean(tally)) = AsMap(tally)

\* clean changed the tally it was given
C7_Witness == pc = "cleaned" /\ AsMap(tally) # AsMap(input) /\ tally # <<>>

\* C8: the count of a cleaned ballot is the sum of the counts of the raw
\* ballots that normalise to it; counts stay >= 0 and the total is kept.
C8_CleanConservesWeight ==
    pc = "cleaned" =>
        /\ \A i \in 1..Len(tally) :
              /\ tally[i].v >= 0
              /\ tally[i].v =
                    WeightIn(input, {b \in BallotsOf(input) : Normalised(b) = tally[i].k})
        /\ WeightIn(tally, BallotsOf(tally)) = WeightIn(input, BallotsOf(input))

\* two raw ballots with positive counts became one
C8_Witness ==
    /\ pc = "cleaned" /\ Len(input) = 2 /\ Len(tally) = 1
    /\ input[1].v > 0 /\ input[2].v > 0

\* rcv_winner as a function: the outcome, the eliminations in order, and
\* whether some elimination round had two or more weakest choices
RECURSIVE rcv_winner(_, _)
rcv_winner(t, tb) ==
    LET r == rcv_round(t, tb)
    IN IF ~r.ok THEN [pc |-> "failed", w |-> None, elims |-> <<>>, tie |-> FALSE]
       ELSE IF r.w # None
       THEN [pc |-> "done", w |-> r.w, elims |-> <<>>, tie |-> FALSE]
       ELSE LET rest == rcv_winner(delete_name(r.LL, r.e, FALSE), tb)
            IN [pc |-> rest.pc, w |-> rest.w, elims |-> <<r.e>> \o rest.elims,
                tie |-> (rest.tie \/ Cardinality(Weakest(r.d)) >= 2)]

\* C9: two runs on one tally under different tie-break orders, neither with
\* a tie for the least first-choice weight in any elimination round, end the
\* same way after the same eliminations.
C9_TieBreakOnlyBreaksTies ==
    (pc \in {"done", "failed"} /\ ~tie) =>
        \A tb2 \in TieBreakers \cup {DocTieBreaker} :
            LET other == rcv_winner(input, tb2)
            IN ~other.tie =>
                  (other.pc = pc /\ other.w = w /\ other.elims = elims)

\* a run without ties eliminated the choice its tie-break order favours most
C9_Witness ==
    /\ pc = "done" /\ ~tie /\ Len(elims) >= 1
    /\ Len(tie_breaker) = 2 /\ elims[1] = tie_breaker[1]

\* C10: the winner rcv_winner returns is never undervote or overvote.
C10_WinnerNeverSentinel == pc = "done" => w \notin Sentinels

\* C11: a tally expanded to its ballot list and collapsed again is the same
\* mapping.
C11_RoundTrip == pc = "collapsed" => AsMap(tally) = AsMap(input)

\* C11 as amended: the round trip keeps exactly the entries whose count is
\* positive, with their counts; an entry of count zero is lost.
C11_RoundTripKeepsPositive ==
    pc = "collapsed" => AsMap(tally) = {x \in AsMap(input) : x[2] > 0}

\* two ballots, one of them counted more than once, went through the round trip
C11_Witness ==
    /\ pc = "collapsed" /\ Len(input) = 2
    /\ input[1].v >= 2 /\ input[2].v >= 1 /\ Len(ballots) >= 3

\* --- the adapter, as the specification words it
\* a token has exactly one hyphen
OneHyphen(token) == Cardinality({i \in 1..Len(token) : token[i] = "-"}) = 1

\* every token of every vote has exactly one hyphen
AllOneHyphen(t) ==
    \A i \in 1..Len(t) : \A j \in 1..Len(t[i].k) : OneHyphen(t[i].k[j])

\* what follows the hyphen of a token (one character here)
CandidateOf(token) == token[(CHOOSE i \in 1..Len(token) : token[i] = "-") + 1]

\* the tokens of a vote in ascending order of their strings
LexOrdered(vote) ==
    CHOOSE s \in {[i \in 1..Len(vote) |-> vote[p[i]]] : p \in Permutations(1..Len(vote))} :
        \A i, j \in 1..Len(vote) : i < j => ~StrLess(s[j], s[i])

LexCandidates(vote) == [i \in 1..Len(vote) |-> CandidateOf(LexOrdered(vote)[i])]

\* C12: outcomes.IRV turns each vote into the candidates of its tokens in
\* lexicographic order of the token strings, calls rcv_winner on that tally
\* with an empty tie-break order, and returns the one-element sequence of the
\* winner.
C12_AdapterOrdersLexicographically ==
    /\ [][(pc = "irv" /\ AllOneHyphen(input)) =>
            /\ pc' = "loop"
            /\ tie_breaker' = <<>>
            /\ BallotsOf(tally') = {LexCandidates(v) : v \in BallotsOf(input)}]_vars
    /\ [](pc = "returned" =>
            /\ outcome = <<w>> /\ w # None
            /\ rcv_winner(OrderedTally(input), <<>>).w = outcome[1])

\* the vote ("2-b", "10-a") was resolved and a, ranked tenth, won
C12_Witness ==
    /\ pc = "returned" /\ Len(input) = 1 /\ input[1].v > 0
    /\ input[1].k = << <<"2", "-", "b">>, <<"1", "0", "-", "a">> >>
    /\ outcome = <<"a">>

\* a token of the form <rank>-<candidate>: a positive integer in decimal
\* digits, one hyphen, a candidate
WellFormedToken(token) ==
    /\ OneHyphen(token)
    /\ LET h == CHOOSE i \in 1..Len(token) : token[i] = "-"
       IN /\ h > 1 /\ h < Len(token)
          /\ \A i \in 1..(h - 1) : token[i] \in {"0", "1", "2"}
          /\ RankValue(SubSeq(token, 1, h - 1)) > 0

\* C13: when a vote of the tally has a token that is not of the form
\* <rank>-<candidate>, outcomes.IRV fails and returns nothing.
C13_MalformedTokenFails ==
    (/\ pc # "irv"
     /\ \E i \in 1..Len(input) : \E j \in 1..Len(input[i].k) :
           ~WellFormedToken(input[i].k[j]))
    => (pc = "failed" /\ error = "ValueError" /\ outcome = None)

\* the entries of tally t stored in the order p
Reordered(t, p) == [i \in 1..Len(t) |-> t[p[i]]]

\* C14: two tallies equal as ballot-to-count mappings (zero counts allowed)
\* whose entries are stored in different orders give the same outcome of
\* rcv_winner, the same winner or the same failure, under one tie-break order.
C14_OrderIndependent ==
    pc \in {"done", "failed"} =>
        \A p \in Permutations(1..Len(input)) :
            LET other == rcv_winner(Reordered(input, p), tie_breaker)
            IN other.pc = pc /\ other.w = w

\* every token of every vote is of the form <rank>-<candidate>
WellFormedTally(t) ==
    \A i \in 1..Len(t) : \A j \in 1..Len(t[i].k) : WellFormedToken(t[i].k[j])

\* C15: for a well-formed rank-token tally, the tally that outcomes.IRV hands
\* to rcv_winner has the total count of the input tally, also when two votes
\* map to the same candidate sequence.
C15_AdapterConservesWeight ==
    (pc = "loop" /\ round_number = 0 /\ WellFormedTally(input))
    => SumCounts(tally) = SumCounts(input)

\* C16: with at least one non-empty ballot rcv_winner never fails; it can fail
\* only in round 1; an elimination leaves a choice with first-choice presence;
\* the winner appears in the initial tally and was not eliminated before.
C16_FailsOnlyInRoundOne ==
    /\ []((\E i \in 1..Len(input) : Len(input[i].k) > 0) => pc # "failed")
    /\ [](pc = "failed" => round_number = 1)
    /\ [](pc = "done" => (w \in Choices(input) /\ w \notin Range(elims)))
    /\ [][Eliminated => FirstChoices(tally') # {}]_vars

C16_Witness ==
    /\ pc = "done" /\ Len(elims) >= 1 /\ round_number = Len(elims) + 1
    /\ w \in Choices(input) /\ w \notin Range(elims)
    /\ \E i \in 1..Len(input) :
          /\ input[i].v > 0 /\ Len(input[i].k) >= 2
          /\ input[i].k[1] = elims[1] /\ input[i].k[2] = w

====
